---- MODULE Spec2Model ----
(***************************************************************************)
(* A model of the dicedb_py client: one Client (Session) with its control  *)
(* connection, the reconnect-and-retry logic of fire, the watch            *)
(* subscription with its background thread, and close.  Sockets, the       *)
(* server and the thread scheduler are the environment.                    *)
(***************************************************************************)
EXTENDS Integers, Sequences, FiniteSets, TLC

(* ------------------------------ bounds --------------------------------- *)

\* Depth of the self-recursion of fire at which the interpreter's recursion
\* limit is reached inside check_and_reconnect.
MaxDepth == 1

\* Number of socket objects the client may create in one run.
MaxSocks == 3

\* Number of events the server pushes on watch connections in one run.
MaxEvents == 2

\* Number of entries of the watch queue at which the watch loop is no
\* longer scheduled for a new iteration.
MaxQueue == 2

(* --------------------------- io.py constants --------------------------- *)

MAX_REQUEST_SIZE == 32 * 1024 * 1024

IO_BUFFER_SIZE == 16 * 1024

(* ------------------------------ threads -------------------------------- *)

\* The threads that call the public operations.  The foreground thread
\* also runs the constructor.
Callers == {"t1", "t2"}

Foreground == "t1"

(* ------------------------------ wire.py -------------------------------- *)

Command(c, a) == [cmd |-> c, args |-> a]

Response(e, v) == [err |-> e, value |-> v]

NoCommand == Command("", <<>>)

NoResponse == Response("", "")

\* A Python object that is no Response, here a str.
Str(s) == [str |-> s]

\* Whether an object has the attribute err.
IsResponse(x) == "err" \in DOMAIN x

(* ------------------------------- io.py --------------------------------- *)

\* Python's `needle in s` on strings.
Contains(s, needle) ==
    \E i \in 1..(Len(s) - Len(needle) + 1) :
        SubSeq(s, i, i + Len(needle) - 1) = needle

\* Bytes are a size and a sequence of segments; a segment is the pickle of
\* one object, or bytes on which pickle.loads raises an exception with the
\* given text.  pickle.loads decodes the first pickle of its input.
Pickle(obj) == [t |-> "pickle", obj |-> obj, text |-> ""]

Junk(text) == [t |-> "junk", obj |-> NoResponse, text |-> text]

Bytes(n, segs) == [kind |-> "bytes", n |-> n, segs |-> segs, msg |-> ""]

\* conn.recv raising socket.error with str(e) = msg.
SocketError(msg) == [kind |-> "error", n |-> 0, segs |-> <<>>, msg |-> msg]

\* pickle.loads(data), whatever object the pickle holds, or the Response
\* that carries the text of the exception it raised.
deserialize(data) ==
    IF data.segs = <<>>
    THEN Response("Failed to deserialize response: Ran out of input", "")
    ELSE IF data.segs[1].t = "pickle"
    THEN data.segs[1].obj
    ELSE Response("Failed to deserialize response: " \o data.segs[1].text, "")

\* A pass of read that refuses a message of exactly MAX_REQUEST_SIZE bytes.
readStepM(chunk, result) ==
    IF chunk.kind = "error"
    THEN [done |-> TRUE, resp |-> Response(chunk.msg, ""), result |-> result]
    ELSE IF chunk.n = 0 THEN
        [done |-> TRUE,
         resp |-> IF result.n = 0
                  THEN Response("Empty response or connection closed", "")
                  ELSE deserialize(result),
         result |-> result]
    ELSE IF result.n + chunk.n >= MAX_REQUEST_SIZE
    THEN [done |-> TRUE, resp |-> Response("Request too large", ""), result |-> result]
    ELSE LET acc == Bytes(result.n + chunk.n, result.segs \o chunk.segs) IN
         IF chunk.n < IO_BUFFER_SIZE
         THEN [done |-> TRUE, resp |-> deserialize(acc), result |-> acc]
         ELSE [done |-> FALSE, resp |-> NoResponse, result |-> acc]

\* One pass of the `while True:` of read with the result of its conn.recv:
\* the Response returned (done), or the bytes accumulated for the next pass.
readStep(chunk, result) ==
    IF chunk.kind = "error"
    THEN [done |-> TRUE, resp |-> Response(chunk.msg, ""), result |-> result]
    ELSE IF chunk.n = 0 THEN
        [done |-> TRUE,
         resp |-> IF result.n = 0
                  THEN Response("Empty response or connection closed", "")
                  ELSE deserialize(result),
         result |-> result]
    ELSE IF result.n + chunk.n > MAX_REQUEST_SIZE
    THEN [done |-> TRUE, resp |-> Response("Request too large", ""), result |-> result]
    ELSE LET acc == Bytes(result.n + chunk.n, result.segs \o chunk.segs) IN
         IF chunk.n < IO_BUFFER_SIZE
         THEN [done |-> TRUE, resp |-> deserialize(acc), result |-> acc]
         ELSE [done |-> FALSE, resp |-> NoResponse, result |-> acc]

\* read(conn), given the results of the successive conn.recv calls; a
\* stream that delivers nothing more delivers b''.
RECURSIVE readLoop(_, _, _)
readLoop(recvs, i, result) ==
    LET chunk == IF i <= Len(recvs) THEN recvs[i] ELSE Bytes(0, <<>>)
        s == readStep(chunk, result)
    IN IF s.done THEN s.resp ELSE readLoop(recvs, i + 1, s.result)

read(recvs) == readLoop(recvs, 1, Bytes(0, <<>>))

(* ------------------------------- state --------------------------------- *)

VARIABLES
    session,      \* "new" before Client.__init__, then "ready" or "failed";
                  \* "closed" once a close() has returned
    id,           \* Client.id
    conn,         \* Client.conn: the socket object, NoSocket for None
    watch_conn,   \* Client.watch_conn: the socket object, NoSocket for None
    watch_ch,     \* Client.watch_ch attribute: 0 for None, else the Event object
    ev_set,       \* whether the Event in watch_ch is set
    watch_queue,  \* Client.watch_queue
    watch_thread, \* Client._watch_thread: number of threads started
    lock,         \* Client._lock, an RLock: owner and recursion count
    dials,        \* number of socket objects created so far
    pc,           \* where each calling thread is
    op,           \* the public operation each calling thread is in
    cmd,          \* the Command a thread's fire call carries
    result,       \* the local `result` of a thread's fire call
    depth,        \* recursion depth of a thread's fire call
    ret,          \* what close or watch_ch returned, at pc "ret"
    exc,          \* the exception an operation raised, at pc "ret"
    wpc,          \* where the watch thread is
    wresp,        \* the local `resp` of the watch thread
    pushed,       \* number of events the server has pushed
    reads,        \* history: the Responses the watch thread has read
    stats,        \* history, per thread: reconnects and command writes of
                  \* the current fire call, whether its first read saw b'',
                  \* whether a reconnect of it succeeded
    io            \* a call of dice_io.read on a socket of its own: where it
                  \* is, its local `result` and the length it had before the
                  \* last pass, the passes made, the last chunk, the Response

vars == <<session, id, conn, watch_conn, watch_ch, ev_set, watch_queue,
          watch_thread, lock, dials, pc, op, cmd, result, depth, ret, exc,
          wpc, wresp, pushed, reads, stats, io>>

\* The variables of the Client, its threads and its sockets.
runVars == <<session, id, conn, watch_conn, watch_ch, ev_set, watch_queue,
             watch_thread, lock, dials, pc, op, cmd, result, depth, ret, exc,
             wpc, wresp, pushed, reads, stats>>

clientVars == <<session, id, conn, watch_conn, watch_ch, ev_set, watch_queue,
                watch_thread>>

\* The constructor has returned a Client ("closed": a close() of it has
\* returned since).
Constructed == session \in {"ready", "closed"}

NoStats == [reconnects |-> 0, writes |-> 0, eof |-> FALSE, rc_ok |-> FALSE]

NoReturn == [kind |-> "none", ev |-> 0, queue |-> 0]

\* No call of read in progress.
NoRead ==
    [pc |-> "idle", before |-> 0, result |-> Bytes(0, <<>>), passes |-> 0,
     chunk |-> Bytes(0, <<>>), resp |-> NoResponse]

(* ------------------------------ sockets -------------------------------- *)

\* A socket object: what it was dialed for, whether its connect succeeded,
\* whether its connect timed out and the connection attempt is still under
\* way, whether the client closed it, what the server did to the connection
\* ("open"; "closed": closed it, nothing sent to it since; "reset": aborted
\* it, the reset not yet reported to the client; "dead": closed or aborted
\* and known to be so by the client's kernel), what the server has sent on
\* it after its replies and the client has not read, and the first command
\* written on its connection.
NoSocket ==
    [role |-> "none", connected |-> FALSE, pending |-> FALSE, closed |-> FALSE,
     peer |-> "open", first |-> NoCommand, inbuf |-> <<>>]

\* The outcomes of conn.connect((host, port)) under settimeout(5): it
\* returns, or raises because the connection was refused or because the
\* server did not accept within the timeout.
ConnectOutcomes == {"connected", "refused", "timed out"}

\* socket.socket(AF_INET, SOCK_STREAM) followed by connect
NewSocket(role, how) ==
    [NoSocket EXCEPT !.role = role, !.connected = (how = "connected"),
                     !.pending = (how = "timed out")]

\* `if sock: sock.close()`; closing a closed socket is a no-op.
Closed(sock) == IF sock = NoSocket THEN sock ELSE [sock EXCEPT !.closed = TRUE]

\* A socket with a connection on the client's side: connected and not
\* closed by the client.
IsOpen(sock) == sock.connected /\ ~sock.closed

\* The outcomes of conn.sendall(data): TRUE when it returns, FALSE when
\* it raises.  On a connection the server closed the first send returns
\* and the later ones raise; on one it aborted every send raises.
SendOutcomes(sock) ==
    IF ~IsOpen(sock) \/ sock.peer \in {"reset", "dead"} THEN {FALSE} ELSE {TRUE}

\* write(conn, cmd): the socket afterwards.  The command of the first
\* write on a connection is remembered, whatever sendall did with it (on a
\* socket without a connection nothing is written); a reset is reported
\* once, to the send or recv that meets it.
Written(sock, c) ==
    [sock EXCEPT !.first = IF @ = NoCommand /\ IsOpen(sock) THEN c ELSE @,
                 !.peer = IF IsOpen(sock) /\ @ \in {"closed", "reset"}
                          THEN "dead" ELSE @]

\* The replies a live server gives to a command.
ServerReplies ==
    { Response("", "OK"),
      Response("ERR unknown command", ""),
      Response("ERR unexpected EOF", "") }

\* What a server that does not keep to the protocol can send instead: bytes
\* that are no pickle, bytes whose unpickling fails with a text that names
\* EOF, and the pickle of a str.
BadReplies ==
    { Junk("invalid load key, 'x'."), Junk("No module named 'EOF'"),
      Pickle(Str("hello")) }

\* The recv results a socket can deliver to one read call when nothing
\* sent is waiting on it: EBADF on a socket the client closed; the timeout
\* on a socket whose connect timed out, b'' on one whose connect was
\* refused; ECONNRESET, once, on a connection the server aborted; b'' on
\* one it closed; else a reply or the timeout.
RecvScripts(sock) ==
    IF sock.closed THEN {<<SocketError("[Errno 9] Bad file descriptor")>>}
    ELSE IF sock.pending THEN { <<SocketError("timed out")>> }
    ELSE IF ~sock.connected THEN { <<Bytes(0, <<>>)>> }
    ELSE IF sock.peer = "reset"
    THEN { <<SocketError("[Errno 104] Connection reset by peer")>> }
    ELSE IF sock.peer \in {"closed", "dead"}
    THEN { <<Bytes(0, <<>>)>> }
    ELSE { <<Bytes(64, <<Pickle(r)>>)>> : r \in ServerReplies }
         \cup { <<Bytes(64, <<b>>)>> : b \in BadReplies }
         \cup { <<SocketError("timed out")>> }

\* The socket after a read call on it: a reset is reported once.
Received(sock) ==
    IF IsOpen(sock) /\ sock.peer = "reset" THEN [sock EXCEPT !.peer = "dead"]
    ELSE sock

(* ------------------------------- RLock --------------------------------- *)

CanAcquire(t) == lock.owner \in {"none", t}

Acquire(t) == [owner |-> t, count |-> lock.count + 1]

Release ==
    IF lock.count <= 1 THEN [owner |-> "none", count |-> 0]
    ELSE [owner |-> lock.owner, count |-> lock.count - 1]

(* ------------------------------ client.py ------------------------------ *)

\* Command(cmd="HANDSHAKE", args=[self.id, kind])
Handshake(identity, kind) == Command("HANDSHAKE", <<identity, kind>>)

\* The test that opens check_and_reconnect.
IsBrokenConnection(error) == Contains(error, "EOF") \/ Contains(error, "Broken pipe")

\* Whether thread t, inside the check_and_reconnect of a fire, meets the
\* interpreter's recursion limit: the handshake of the reconnect
\* (check_and_reconnect, _fire, write, serialize) is the deepest chain of
\* calls of fire, and each retry of fire adds one frame.
AtLimit(t) == depth[t] >= MaxDepth

\* A str given to fire_string is the sequence of its code points.  The
\* code points that str.strip() and str.split() take for whitespace.
WhiteSpace ==
    {9, 10, 11, 12, 13, 28, 29, 30, 31, 32, 133, 160, 5760}
        \cup (8192..8202) \cup {8232, 8233, 8239, 8287, 12288}

IsSpace(c) == c \in WhiteSpace

\* str.split() with no separator: the maximal runs of characters that are
\* not whitespace.
RECURSIVE split(_)
split(s) ==
    IF s = <<>> THEN <<>>
    ELSE IF IsSpace(s[1]) THEN split(Tail(s))
    ELSE LET RECURSIVE wordEnd(_)
             wordEnd(i) == IF i <= Len(s) /\ ~IsSpace(s[i])
                           THEN wordEnd(i + 1) ELSE i
             e == wordEnd(1)
         IN <<SubSeq(s, 1, e - 1)>> \o split(SubSeq(s, e, Len(s)))

\* str.strip()
RECURSIVE strip(_)
strip(s) ==
    IF s = <<>> THEN s
    ELSE IF IsSpace(s[1]) THEN strip(Tail(s))
    ELSE IF IsSpace(s[Len(s)]) THEN strip(SubSeq(s, 1, Len(s) - 1))
    ELSE s

\* The characters with the code points 32 to 95 and 97 to 126.
AsciiLow ==
    " !\"#$%&'()*+,-./0123456789:;<=>?@ABCDEFGHIJKLMNOPQRSTUVWXYZ[\\]^_"

AsciiHigh == "abcdefghijklmnopqrstuvwxyz{|}~"

\* The character with code point c as a string of the model; one that a
\* string of the model cannot hold is written by its number.
chr(c) ==
    IF c \in 32..95 THEN SubSeq(AsciiLow, c - 31, c - 31)
    ELSE IF c \in 97..126 THEN SubSeq(AsciiHigh, c - 96, c - 96)
    ELSE "<" \o ToString(c) \o ">"

\* A token as the string a Command carries.
RECURSIVE text(_)
text(s) == IF s = <<>> THEN "" ELSE chr(s[1]) \o text(Tail(s))

\* The commands given to fire and the strings given to fire_string:
\* the empty string, two spaces, GET and k between spaces, a carriage
\* return, and GET and k between a carriage return, a vertical tab and an
\* em space.
FireCommands == {Command("GET", <<"k">>)}

FireStrings ==
    { <<>>, <<32, 32>>, <<32, 71, 69, 84, 32, 32, 107, 32>>, <<13>>,
      <<13, 71, 69, 84, 11, 107, 8195>> }

\* The options given to the constructor: none, or WithID("custom-id").
ClientOptions == {<<>>, <<"custom-id">>}

Init ==
    /\ session = "new"
    /\ id = ""
    /\ conn = NoSocket
    /\ watch_conn = NoSocket
    /\ watch_ch = 0
    /\ ev_set = FALSE
    /\ watch_queue = <<>>
    /\ watch_thread = 0
    /\ lock = [owner |-> "none", count |-> 0]
    /\ dials = 0
    /\ pc = [t \in Callers |-> "idle"]
    /\ op = [t \in Callers |-> "none"]
    /\ cmd = [t \in Callers |-> NoCommand]
    /\ result = [t \in Callers |-> NoResponse]
    /\ depth = [t \in Callers |-> 0]
    /\ ret = [t \in Callers |-> NoReturn]
    /\ exc = [t \in Callers |-> "none"]
    /\ wpc = "none"
    /\ wresp = NoResponse
    /\ pushed = 0
    /\ reads = <<>>
    /\ stats = [t \in Callers |-> NoStats]
    /\ io = NoRead

\* Client.__init__ up to and including self._connect(): the id is the
\* generated uuid unless an option overrides it; a failed dial raises
\* ConnectionError out of the constructor.
ClientInit(t) ==
    /\ t = Foreground /\ session = "new" /\ pc[t] = "idle"
    /\ \E options \in ClientOptions, how \in ConnectOutcomes :
        /\ id' = IF options = <<>> THEN "uuid4" ELSE options[1]
        /\ conn' = NewSocket("command", how)
        /\ dials' = dials + 1
        /\ IF how = "connected"
           THEN /\ pc' = [pc EXCEPT ![t] = "fire_enter"]
                /\ op' = [op EXCEPT ![t] = "init"]
                /\ cmd' = [cmd EXCEPT ![t] = Handshake(id', "command")]
                /\ UNCHANGED <<session, exc>>
           ELSE /\ session' = "failed"
                /\ exc' = [exc EXCEPT ![t] = "ConnectionError"]
                /\ UNCHANGED <<pc, op, cmd>>
    /\ UNCHANGED <<io, watch_conn, watch_ch, ev_set, watch_queue, watch_thread, lock,
                   result, depth, ret, wpc, wresp, pushed, reads, stats>>

\* Client.__init__ after its fire(HANDSHAKE): an exception of fire leaves
\* the constructor, else `if resp.err: raise ConnectionError`.
ClientInitCheck(t) ==
    /\ pc[t] = "init_check"
    /\ IF exc[t] # "none"
       THEN session' = "failed" /\ UNCHANGED exc
       ELSE IF result[t].err # ""
       THEN session' = "failed" /\ exc' = [exc EXCEPT ![t] = "ConnectionError"]
       ELSE session' = "ready" /\ UNCHANGED exc
    /\ pc' = [pc EXCEPT ![t] = "idle"]
    /\ op' = [op EXCEPT ![t] = "none"]
    /\ cmd' = [cmd EXCEPT ![t] = NoCommand]
    /\ result' = [result EXCEPT ![t] = NoResponse]
    /\ stats' = [stats EXCEPT ![t] = NoStats]
    /\ UNCHANGED <<io, id, conn, watch_conn, watch_ch, ev_set, watch_queue, watch_thread,
                   lock, dials, depth, ret, wpc, wresp, pushed, reads>>

\* A caller starts fire(cmd).
FireCall(t) ==
    /\ Constructed /\ pc[t] = "idle"
    /\ \E c \in FireCommands : cmd' = [cmd EXCEPT ![t] = c]
    /\ op' = [op EXCEPT ![t] = "fire"]
    /\ pc' = [pc EXCEPT ![t] = "fire_enter"]
    /\ UNCHANGED <<io, clientVars, lock, dials, result, depth, ret, exc, wpc, wresp,
                   pushed, reads, stats>>

\* fire_string(cmd_str): tokens[0] raises IndexError when the string holds
\* no token; else the call is fire(Command(cmd, args)) and returns what
\* that returns.
FireString(t) ==
    /\ Constructed /\ pc[t] = "idle"
    /\ \E cmd_str \in FireStrings :
        LET tokens == split(strip(cmd_str)) IN
        IF tokens = <<>>
        THEN /\ exc' = [exc EXCEPT ![t] = "IndexError"]
             /\ op' = [op EXCEPT ![t] = "fire_string"]
             /\ pc' = [pc EXCEPT ![t] = "ret"]
             /\ UNCHANGED cmd
        ELSE /\ cmd' = [cmd EXCEPT ![t] =
                          Command(text(tokens[1]),
                                  IF Len(tokens) > 1
                                  THEN [i \in 1..(Len(tokens) - 1) |-> text(tokens[i + 1])]
                                  ELSE <<>>)]
             /\ op' = [op EXCEPT ![t] = "fire"]
             /\ pc' = [pc EXCEPT ![t] = "fire_enter"]
             /\ UNCHANGED exc
    /\ UNCHANGED <<io, clientVars, lock, dials, result, depth, ret, wpc, wresp,
                   pushed, reads, stats>>

\* fire without its `with self._lock:`.
FireEnterM(t) ==
    /\ pc[t] = "fire_enter"
    /\ pc' = [pc EXCEPT ![t] = "fire_write"]
    /\ UNCHANGED <<io, clientVars, lock, dials, op, cmd, result, depth, ret, exc, wpc,
                   wresp, pushed, reads, stats>>

\* fire: `with self._lock:`
FireEnter(t) ==
    /\ pc[t] = "fire_enter" /\ CanAcquire(t)
    /\ lock' = Acquire(t)
    /\ pc' = [pc EXCEPT ![t] = "fire_write"]
    /\ UNCHANGED <<io, clientVars, dials, op, cmd, result, depth, ret, exc, wpc, wresp,
                   pushed, reads, stats>>

\* Where fire goes with the result of _fire: into check_and_reconnect's
\* reconnect when the error names a broken connection, else to its return.
AfterFire(r) ==
    IF r.err # "" /\ IsBrokenConnection(r.err) THEN "rc_enter" ELSE "fire_exit"

\* _fire: dice_io.write(conn, cmd)
FireWrite(t) ==
    /\ pc[t] = "fire_write"
    /\ conn' = Written(conn, cmd[t])
    /\ \E ok \in SendOutcomes(conn) :
        IF ok
        THEN pc' = [pc EXCEPT ![t] = "fire_read"] /\ UNCHANGED result
        ELSE LET r == Response("Failed to write command to socket", "") IN
             /\ result' = [result EXCEPT ![t] = r]
             /\ pc' = [pc EXCEPT ![t] = AfterFire(r)]
    /\ stats' = [stats EXCEPT ![t].writes = @ + 1]
    /\ UNCHANGED <<io, session, id, watch_conn, watch_ch, ev_set, watch_queue,
                   watch_thread, lock, dials, op, cmd, depth, ret, exc, wpc, wresp,
                   pushed, reads>>

\* _fire: dice_io.read(conn), then fire's test of result.err, which raises
\* AttributeError out of the `with` when the object read is no Response.
FireRead(t) ==
    /\ pc[t] = "fire_read"
    /\ \E rs \in RecvScripts(conn) :
        LET r == read(rs) IN
        /\ result' = [result EXCEPT ![t] = r]
        /\ IF IsResponse(r)
           THEN pc' = [pc EXCEPT ![t] = AfterFire(r)] /\ UNCHANGED exc
           ELSE /\ pc' = [pc EXCEPT ![t] = "fire_exit"]
                /\ exc' = [exc EXCEPT ![t] = "AttributeError"]
        /\ stats' = [stats EXCEPT ![t].eof =
                        @ \/ (depth[t] = 0 /\ rs = <<Bytes(0, <<>>)>>)]
    /\ conn' = Received(conn)
    /\ UNCHANGED <<io, session, id, watch_conn, watch_ch, ev_set, watch_queue,
                   watch_thread, lock, dials, op, cmd, depth, ret, wpc, wresp,
                   pushed, reads>>

\* The errors given to check_and_reconnect when the application calls it.
ReconnectErrors == {"EOF", "timed out"}

\* A caller starts check_and_reconnect(error), a public method: the test
\* of the error, and False at once when it names no broken connection.
CheckAndReconnectCall(t) ==
    /\ Constructed /\ pc[t] = "idle"
    /\ op' = [op EXCEPT ![t] = "check_and_reconnect"]
    /\ \E error \in ReconnectErrors :
        IF IsBrokenConnection(error)
        THEN pc' = [pc EXCEPT ![t] = "rc_enter"] /\ UNCHANGED ret
        ELSE /\ pc' = [pc EXCEPT ![t] = "ret"]
             /\ ret' = [ret EXCEPT ![t] = [NoReturn EXCEPT !.kind = "False"]]
    /\ UNCHANGED <<io, clientVars, lock, dials, cmd, result, depth, exc, wpc, wresp,
                   pushed, reads, stats>>

\* check_and_reconnect, past its test of the error: `with self._lock:`
ReconnectEnter(t) ==
    /\ pc[t] = "rc_enter" /\ CanAcquire(t)
    /\ lock' = Acquire(t)
    /\ pc' = [pc EXCEPT ![t] = "rc_close"]
    /\ stats' = [stats EXCEPT ![t].reconnects = @ + 1]
    /\ UNCHANGED <<io, clientVars, dials, op, cmd, result, depth, ret, exc, wpc, wresp,
                   pushed, reads>>

\* check_and_reconnect returns value, leaving its `with`: to the
\* application that called it, or to fire, which on True calls itself and
\* on False goes to its `return result`.
ReconnectReturns(t, value) ==
    /\ lock' = Release
    /\ IF op[t] = "check_and_reconnect"
       THEN /\ pc' = [pc EXCEPT ![t] = "ret"]
            /\ ret' = [ret EXCEPT ![t] =
                         [NoReturn EXCEPT !.kind = IF value THEN "True" ELSE "False"]]
            /\ UNCHANGED depth
       ELSE /\ pc' = [pc EXCEPT ![t] = IF value THEN "fire_enter" ELSE "fire_exit"]
            /\ depth' = [depth EXCEPT ![t] = IF value THEN @ + 1 ELSE @]
            /\ UNCHANGED ret

\* check_and_reconnect: `if self.conn: self.conn.close()`
ReconnectClose(t) ==
    /\ pc[t] = "rc_close"
    /\ conn' = Closed(conn)
    /\ pc' = [pc EXCEPT ![t] = "rc_connect"]
    /\ UNCHANGED <<io, session, id, watch_conn, watch_ch, ev_set, watch_queue,
                   watch_thread, lock, dials, op, cmd, result, depth, ret, exc, wpc,
                   wresp, pushed, reads, stats>>

\* check_and_reconnect: self._connect().  A failed dial raises
\* ConnectionError and the handler returns False; self.conn is then the
\* new socket, which has no connection.
ReconnectDial(t) ==
    /\ pc[t] = "rc_connect"
    /\ dials < MaxSocks
    /\ dials' = dials + 1
    /\ \E how \in ConnectOutcomes :
        /\ conn' = NewSocket("command", how)
        /\ IF how = "connected"
           THEN /\ pc' = [pc EXCEPT ![t] = "rc_hs_write"]
                /\ UNCHANGED <<lock, depth, ret>>
           ELSE ReconnectReturns(t, FALSE)
    /\ UNCHANGED <<io, session, id, watch_conn, watch_ch, ev_set, watch_queue,
                   watch_thread, op, cmd, result, exc, wpc, wresp, pushed, reads,
                   stats>>

\* check_and_reconnect: the write of its _fire(HANDSHAKE, self.conn).  At
\* the recursion limit serialize raises RecursionError, which write
\* catches: nothing is sent and the failed write makes the method return
\* False.
ReconnectHandshakeWrite(t) ==
    /\ pc[t] = "rc_hs_write"
    /\ IF AtLimit(t)
       THEN ReconnectReturns(t, FALSE) /\ UNCHANGED conn
       ELSE /\ conn' = Written(conn, Handshake(id, "command"))
            /\ \E ok \in SendOutcomes(conn) :
                 IF ok
                 THEN /\ pc' = [pc EXCEPT ![t] = "rc_hs_read"]
                      /\ UNCHANGED <<lock, depth, ret>>
                 ELSE ReconnectReturns(t, FALSE)
    /\ UNCHANGED <<io, session, id, watch_conn, watch_ch, ev_set, watch_queue,
                   watch_thread, dials, op, cmd, result, exc, wpc, wresp, pushed,
                   reads, stats>>

\* check_and_reconnect handing the error of the failed handshake to fire
\* as its result.
ReconnectHandshakeReadM(t) ==
    /\ pc[t] = "rc_hs_read"
    /\ \E rs \in RecvScripts(conn) :
        LET resp == read(rs) IN
        IF IsResponse(resp) /\ resp.err = ""
        THEN /\ ReconnectReturns(t, TRUE)
             /\ stats' = [stats EXCEPT ![t].rc_ok = TRUE]
             /\ UNCHANGED result
        ELSE /\ ReconnectReturns(t, FALSE)
             /\ result' = [result EXCEPT ![t] = IF IsResponse(resp) THEN resp ELSE @]
             /\ UNCHANGED stats
    /\ conn' = Received(conn)
    /\ UNCHANGED <<io, session, id, watch_conn, watch_ch, ev_set, watch_queue,
                   watch_thread, dials, op, cmd, exc, wpc, wresp, pushed, reads>>

\* check_and_reconnect: the read of its _fire(HANDSHAKE, self.conn) and
\* the test of resp.err, which raises AttributeError into the handler when
\* the object read is no Response.
ReconnectHandshakeRead(t) ==
    /\ pc[t] = "rc_hs_read"
    /\ \E rs \in RecvScripts(conn) :
        LET resp == read(rs) IN
        IF IsResponse(resp) /\ resp.err = ""
        THEN /\ ReconnectReturns(t, TRUE)
             /\ stats' = [stats EXCEPT ![t].rc_ok = TRUE]
        ELSE /\ ReconnectReturns(t, FALSE)
             /\ UNCHANGED stats
    /\ conn' = Received(conn)
    /\ UNCHANGED <<io, session, id, watch_conn, watch_ch, ev_set, watch_queue,
                   watch_thread, dials, op, cmd, result, exc, wpc, wresp, pushed,
                   reads>>

\* fire: leaving `with self._lock:` with `result` as the value returned
\* or with the exception raised, once per level of the recursion; from the
\* outermost level to the caller.
FireExit(t) ==
    /\ pc[t] = "fire_exit"
    /\ lock' = Release
    /\ IF depth[t] > 0
       THEN /\ depth' = [depth EXCEPT ![t] = @ - 1]
            /\ UNCHANGED <<pc, op, cmd, result, stats, exc>>
       ELSE IF op[t] = "init"
       THEN /\ pc' = [pc EXCEPT ![t] = "init_check"]
            /\ UNCHANGED <<op, cmd, result, depth, stats, exc>>
       ELSE /\ pc' = [pc EXCEPT ![t] = "idle"]
            /\ op' = [op EXCEPT ![t] = "none"]
            /\ cmd' = [cmd EXCEPT ![t] = NoCommand]
            /\ result' = [result EXCEPT ![t] = NoResponse]
            /\ stats' = [stats EXCEPT ![t] = NoStats]
            /\ exc' = [exc EXCEPT ![t] = "none"]
            /\ UNCHANGED depth
    /\ UNCHANGED <<io, clientVars, dials, ret, wpc, wresp, pushed, reads>>

\* The caller has the return value or the exception of close, watch_ch,
\* check_and_reconnect or fire_string.
Return(t) ==
    /\ pc[t] = "ret"
    /\ pc' = [pc EXCEPT ![t] = "idle"]
    /\ op' = [op EXCEPT ![t] = "none"]
    /\ ret' = [ret EXCEPT ![t] = NoReturn]
    /\ exc' = [exc EXCEPT ![t] = "none"]
    /\ stats' = [stats EXCEPT ![t] = NoStats]
    /\ UNCHANGED <<io, clientVars, lock, dials, cmd, result, depth, wpc, wresp, pushed,
                   reads>>

\* A caller starts close().
CloseCall(t) ==
    /\ Constructed /\ pc[t] = "idle"
    /\ op' = [op EXCEPT ![t] = "close"]
    /\ pc' = [pc EXCEPT ![t] = "close_enter"]
    /\ UNCHANGED <<io, clientVars, lock, dials, cmd, result, depth, ret, exc, wpc, wresp,
                   pushed, reads, stats>>

\* close: `with self._lock:`
CloseEnter(t) ==
    /\ pc[t] = "close_enter" /\ CanAcquire(t)
    /\ lock' = Acquire(t)
    /\ pc' = [pc EXCEPT ![t] = "close_set"]
    /\ UNCHANGED <<io, clientVars, dials, op, cmd, result, depth, ret, exc, wpc, wresp,
                   pushed, reads, stats>>

\* A flag that is flipped instead of set.
EventSetM(isSet) == ~isSet

\* Event.set()
EventSet(isSet) == TRUE

\* close: `if self.watch_ch: self.watch_ch.set()`
CloseSet(t) ==
    /\ pc[t] = "close_set"
    /\ ev_set' = IF watch_ch # 0 THEN EventSet(ev_set) ELSE ev_set
    /\ pc' = [pc EXCEPT ![t] = "close_conn"]
    /\ UNCHANGED <<io, session, id, conn, watch_conn, watch_ch, watch_queue, watch_thread,
                   lock, dials, op, cmd, result, depth, ret, exc, wpc, wresp, pushed,
                   reads, stats>>

\* close: `if self.conn: self.conn.close()`
CloseConn(t) ==
    /\ pc[t] = "close_conn"
    /\ conn' = Closed(conn)
    /\ pc' = [pc EXCEPT ![t] = "close_watch_conn"]
    /\ UNCHANGED <<io, session, id, watch_conn, watch_ch, ev_set, watch_queue,
                   watch_thread, lock, dials, op, cmd, result, depth, ret, exc, wpc,
                   wresp, pushed, reads, stats>>

\* close: `if self.watch_conn: self.watch_conn.close()`, and the end of
\* the `with`; close returns None.
CloseWatchConn(t) ==
    /\ pc[t] = "close_watch_conn"
    /\ watch_conn' = Closed(watch_conn)
    /\ session' = "closed"
    /\ lock' = Release
    /\ pc' = [pc EXCEPT ![t] = "ret"]
    /\ ret' = [ret EXCEPT ![t] = [NoReturn EXCEPT !.kind = "None"]]
    /\ UNCHANGED <<io, id, conn, watch_ch, ev_set, watch_queue, watch_thread,
                   dials, op, cmd, result, depth, exc, wpc, wresp, pushed, reads,
                   stats>>

\* get_or_create_client(client, host, port), called with None or with this
\* Client.  The Client it constructs is another object with its own
\* connection; its constructor returns, or raises ConnectionError, or
\* AttributeError when its handshake is answered by an object that is no
\* Response.  With None the constructor runs outside the `try`: the new
\* Client is returned or the exception leaves as it is.  With a Client the
\* handler turns every exception into ConnectionError, and after the
\* constructor the code goes on to `if client.conn:`.
GetOrCreateCall(t) ==
    /\ Constructed /\ pc[t] = "idle"
    /\ op' = [op EXCEPT ![t] = "get_or_create_client"]
    /\ \E client \in {"None", "client"},
          created \in {"Client", "ConnectionError", "AttributeError"} :
        IF created # "Client"
        THEN /\ exc' = [exc EXCEPT ![t] =
                          IF client = "None" THEN created ELSE "ConnectionError"]
             /\ pc' = [pc EXCEPT ![t] = "ret"]
             /\ UNCHANGED ret
        ELSE IF client = "None"
        THEN /\ ret' = [ret EXCEPT ![t] = [NoReturn EXCEPT !.kind = "Client"]]
             /\ pc' = [pc EXCEPT ![t] = "ret"]
             /\ UNCHANGED exc
        ELSE /\ pc' = [pc EXCEPT ![t] = "goc_close"]
             /\ UNCHANGED <<ret, exc>>
    /\ UNCHANGED <<io, clientVars, lock, dials, cmd, result, depth, wpc, wresp, pushed,
                   reads, stats>>

\* get_or_create_client: `if client.conn: client.conn.close()` and the
\* return of the new Client.
GetOrCreateClose(t) ==
    /\ pc[t] = "goc_close"
    /\ conn' = Closed(conn)
    /\ ret' = [ret EXCEPT ![t] = [NoReturn EXCEPT !.kind = "Client"]]
    /\ pc' = [pc EXCEPT ![t] = "ret"]
    /\ UNCHANGED <<io, session, id, watch_conn, watch_ch, ev_set, watch_queue,
                   watch_thread, lock, dials, op, cmd, result, depth, exc, wpc,
                   wresp, pushed, reads, stats>>

\* A caller opens the watch subscription.  __init__ binds the instance
\* attribute watch_ch (None, later the Event), which hides the method of
\* the same name: client.watch_ch() calls that attribute and raises
\* TypeError; the method's code runs when called as Client.watch_ch(client).
WatchChCall(t) ==
    /\ Constructed /\ pc[t] = "idle"
    /\ op' = [op EXCEPT ![t] = "watch_ch"]
    /\ \E form \in {"attribute", "function"} :
        IF form = "attribute"
        THEN /\ exc' = [exc EXCEPT ![t] = "TypeError"]
             /\ pc' = [pc EXCEPT ![t] = "ret"]
        ELSE /\ pc' = [pc EXCEPT ![t] = "wch_enter"]
             /\ UNCHANGED exc
    /\ UNCHANGED <<io, clientVars, lock, dials, cmd, result, depth, ret, wpc, wresp,
                   pushed, reads, stats>>

\* watch_ch: `with self._lock:`
WatchChEnter(t) ==
    /\ pc[t] = "wch_enter" /\ CanAcquire(t)
    /\ lock' = Acquire(t)
    /\ pc' = [pc EXCEPT ![t] = "wch_check"]
    /\ UNCHANGED <<io, clientVars, dials, op, cmd, result, depth, ret, exc, wpc, wresp,
                   pushed, reads, stats>>

\* watch_ch: `if self.watch_ch is not None: return self.watch_ch`, else
\* the new Event, queue and Condition.  The Event and the queue created
\* together are numbered by the socket created after them.
WatchChCheck(t) ==
    /\ pc[t] = "wch_check"
    /\ IF watch_ch # 0
       THEN /\ ret' = [ret EXCEPT ![t] = [NoReturn EXCEPT !.kind = "event", !.ev = watch_ch]]
            /\ lock' = Release
            /\ pc' = [pc EXCEPT ![t] = "ret"]
            /\ UNCHANGED <<watch_ch, ev_set, watch_queue>>
       ELSE /\ dials < MaxSocks
            /\ watch_ch' = dials + 1
            /\ ev_set' = FALSE
            /\ watch_queue' = <<>>
            /\ pc' = [pc EXCEPT ![t] = "wch_connect"]
            /\ UNCHANGED <<ret, lock>>
    /\ UNCHANGED <<io, session, id, conn, watch_conn, watch_thread, dials, op, cmd,
                   result, depth, exc, wpc, wresp, pushed, reads, stats>>

\* The handler of watch_ch raising with the lock still held.
WatchChFailedM(t) ==
    /\ watch_ch' = 0
    /\ exc' = [exc EXCEPT ![t] = "ConnectionError"]
    /\ lock' = lock
    /\ pc' = [pc EXCEPT ![t] = "ret"]

\* watch_ch: what its `except Exception` handler does: self.watch_ch = None
\* and ConnectionError raised out of the `with`.
WatchChFailed(t) ==
    /\ watch_ch' = 0
    /\ exc' = [exc EXCEPT ![t] = "ConnectionError"]
    /\ lock' = Release
    /\ pc' = [pc EXCEPT ![t] = "ret"]

\* watch_ch: the new socket and its connect.
WatchChDial(t) ==
    /\ pc[t] = "wch_connect"
    /\ dials' = dials + 1
    /\ \E how \in ConnectOutcomes :
        /\ watch_conn' = NewSocket("watch", how)
        /\ IF how = "connected"
           THEN /\ pc' = [pc EXCEPT ![t] = "wch_hs_write"]
                /\ UNCHANGED <<watch_ch, exc, lock>>
           ELSE WatchChFailed(t)
    /\ UNCHANGED <<io, session, id, conn, ev_set, watch_queue, watch_thread, op, cmd,
                   result, depth, ret, wpc, wresp, pushed, reads, stats>>

\* watch_ch: the write of its _fire(HANDSHAKE, self.watch_conn)
WatchChHandshakeWrite(t) ==
    /\ pc[t] = "wch_hs_write"
    /\ watch_conn' = Written(watch_conn, Handshake(id, "watch"))
    /\ \E ok \in SendOutcomes(watch_conn) :
        IF ok
        THEN /\ pc' = [pc EXCEPT ![t] = "wch_hs_read"]
             /\ UNCHANGED <<watch_ch, exc, lock>>
        ELSE WatchChFailed(t)
    /\ UNCHANGED <<io, session, id, conn, ev_set, watch_queue, watch_thread, dials,
                   op, cmd, result, depth, ret, wpc, wresp, pushed, reads, stats>>

\* The replies to the watch handshake that one recv can deliver: when the
\* server has sent events behind its reply, the reply followed by the
\* first k of them; else what RecvScripts says.
WatchHandshakeScripts(sock, k) ==
    IF k = 0 /\ sock.inbuf = <<>> THEN RecvScripts(sock)
    ELSE { <<Bytes(64 * (k + 1), <<b>> \o SubSeq(sock.inbuf, 1, k))>> :
             b \in { Pickle(r) : r \in ServerReplies } \cup BadReplies }

\* watch_ch: the read of its _fire(HANDSHAKE, self.watch_conn), whose recv
\* takes the reply and whatever the server has sent behind it; with no
\* error the thread is started, the caller still inside the `with`.  An
\* object that is no Response raises AttributeError at resp.err, into the
\* same handler as the ConnectionError of a reply with an error.
WatchChHandshakeRead(t) ==
    /\ pc[t] = "wch_hs_read"
    /\ \E k \in 0..Len(watch_conn.inbuf) :
       \E rs \in WatchHandshakeScripts(watch_conn, k) :
        LET resp == read(rs) IN
        /\ IF ~IsResponse(resp) \/ resp.err # ""
           THEN /\ WatchChFailed(t)
                /\ UNCHANGED <<watch_thread, wpc>>
           ELSE /\ watch_thread' = watch_thread + 1
                /\ wpc' = "w_test"
                /\ pc' = [pc EXCEPT ![t] = "wch_return"]
                /\ UNCHANGED <<watch_ch, exc, lock>>
        /\ watch_conn' =
              IF watch_conn.inbuf = <<>> THEN Received(watch_conn)
              ELSE [watch_conn EXCEPT !.inbuf = SubSeq(@, k + 1, Len(@))]
    /\ UNCHANGED <<io, session, id, conn, ev_set, watch_queue, dials, op, cmd,
                   result, depth, ret, wresp, pushed, reads, stats>>

\* watch_ch: Thread.start() has returned; `return self.watch_ch,
\* self.watch_queue` and the end of the `with`.
WatchChReturn(t) ==
    /\ pc[t] = "wch_return"
    /\ ret' = [ret EXCEPT ![t] =
                 [NoReturn EXCEPT !.kind = "tuple", !.ev = watch_ch,
                                  !.queue = watch_ch]]
    /\ lock' = Release
    /\ pc' = [pc EXCEPT ![t] = "ret"]
    /\ UNCHANGED <<io, clientVars, dials, op, cmd, result, depth, exc, wpc, wresp,
                   pushed, reads, stats>>

(* --------------------------- the watch thread -------------------------- *)

\* _watch with `while True:`.
WatchTestM ==
    /\ wpc = "w_test"
    /\ Len(watch_queue) < MaxQueue /\ wpc' = "w_read"
    /\ UNCHANGED <<io, clientVars, lock, dials, pc, op, cmd, result, depth, ret, exc,
                   wresp, pushed, reads, stats>>

\* _watch with a `break` after the first entry appended.
WatchTestB ==
    /\ wpc = "w_test"
    /\ IF ev_set \/ watch_queue # <<>> THEN wpc' = "exited"
       ELSE Len(watch_queue) < MaxQueue /\ wpc' = "w_read"
    /\ UNCHANGED <<io, clientVars, lock, dials, pc, op, cmd, result, depth, ret, exc,
                   wresp, pushed, reads, stats>>

\* _watch: `while not self.watch_ch.is_set():`
WatchTest ==
    /\ wpc = "w_test"
    /\ IF ev_set THEN wpc' = "exited"
       ELSE Len(watch_queue) < MaxQueue /\ wpc' = "w_read"
    /\ UNCHANGED <<io, clientVars, lock, dials, pc, op, cmd, result, depth, ret, exc,
                   wresp, pushed, reads, stats>>

\* The i-th event the server pushes.
PushedEvent(i) == Response("", "E" \o ToString(i))

\* _watch: resp = dice_io.read(self.watch_conn).  One recv takes what has
\* arrived, one pushed message or several, also on a connection the server
\* has closed or aborted since; with nothing arrived it ends as
\* RecvScripts says, a server reply excepted.  read catches socket.error
\* and deserialize catches Exception, so the call returns a Response and
\* the handler of _watch (check_and_reconnect, the "Watch error" entry,
\* break) is never entered.
WatchRead ==
    /\ wpc = "w_read"
    /\ LET inbuf == watch_conn.inbuf IN
       IF ~watch_conn.closed /\ inbuf # <<>>
       THEN \E k \in 1..Len(inbuf) :
               /\ wresp' = read(<<Bytes(64 * k, SubSeq(inbuf, 1, k))>>)
               /\ watch_conn' = [watch_conn EXCEPT !.inbuf = SubSeq(inbuf, k + 1, Len(inbuf))]
       ELSE /\ \E rs \in RecvScripts(watch_conn) :
                 /\ rs[1].kind = "error" \/ rs[1].n = 0
                 /\ wresp' = read(rs)
            /\ watch_conn' = Received(watch_conn)
    /\ reads' = Append(reads, wresp')
    /\ wpc' = "w_append"
    /\ UNCHANGED <<io, session, id, conn, watch_ch, ev_set, watch_queue, watch_thread,
                   lock, dials, pc, op, cmd, result, depth, ret, exc, pushed, stats>>

\* list.insert(0, resp)
QueueAppendM(queue, resp) == <<resp>> \o queue

\* list.append
QueueAppend(queue, resp) == Append(queue, resp)

\* _watch: `with self.watch_condition: self.watch_queue.append(resp)`;
\* resp is not read again before the next read assigns it.
WatchAppend ==
    /\ wpc = "w_append"
    /\ watch_queue' = QueueAppend(watch_queue, wresp)
    /\ wresp' = NoResponse
    /\ wpc' = "w_test"
    /\ UNCHANGED <<io, session, id, conn, watch_conn, watch_ch, ev_set, watch_thread, lock,
                   dials, pc, op, cmd, result, depth, ret, exc, pushed, reads, stats>>

(* ------------------------------ the server ----------------------------- *)

\* The server pushes an event on a watch connection whose handshake it
\* has received: behind its reply to the handshake, or later.
ServerPush ==
    /\ pushed < MaxEvents
    /\ IsOpen(watch_conn) /\ watch_conn.peer = "open"
    /\ wpc # "none" \/ \E t \in Callers : pc[t] = "wch_hs_read"
    /\ pushed' = pushed + 1
    /\ watch_conn' = [watch_conn EXCEPT !.inbuf = Append(@, Pickle(PushedEvent(pushed + 1)))]
    /\ UNCHANGED <<io, session, id, conn, watch_ch, ev_set, watch_queue, watch_thread,
                   lock, dials, pc, op, cmd, result, depth, ret, exc, wpc, wresp,
                   reads, stats>>

\* The server closes a connection, or aborts it; what it had sent before
\* is still delivered, and after it the end of the connection.
PeerClosed(sock, how) == [sock EXCEPT !.peer = how]

CanPeerClose(sock) == sock.connected /\ ~sock.closed /\ sock.peer = "open"

\* The server closes the control connection.
ServerCloseControl ==
    /\ CanPeerClose(conn)
    /\ \E how \in {"closed", "reset"} : conn' = PeerClosed(conn, how)
    /\ UNCHANGED <<io, session, id, watch_conn, watch_ch, ev_set, watch_queue,
                   watch_thread, lock, dials, pc, op, cmd, result, depth, ret, exc,
                   wpc, wresp, pushed, reads, stats>>

\* The server closes the watch connection.
ServerCloseWatch ==
    /\ CanPeerClose(watch_conn)
    /\ \E how \in {"closed", "reset"} : watch_conn' = PeerClosed(watch_conn, how)
    /\ UNCHANGED <<io, session, id, conn, watch_ch, ev_set, watch_queue, watch_thread,
                   lock, dials, pc, op, cmd, result, depth, ret, exc, wpc, wresp,
                   pushed, reads, stats>>

\* The server accepts a connection whose connect had timed out at the
\* client: the socket object the client kept is connected from then on.
Accepted(sock) == [sock EXCEPT !.connected = TRUE, !.pending = FALSE]

CanAccept(sock) == sock.pending /\ ~sock.closed /\ session # "failed"

\* The server accepts the pending control connection.
ServerAcceptControl ==
    /\ CanAccept(conn)
    /\ conn' = Accepted(conn)
    /\ UNCHANGED <<io, session, id, watch_conn, watch_ch, ev_set, watch_queue,
                   watch_thread, lock, dials, pc, op, cmd, result, depth, ret, exc,
                   wpc, wresp, pushed, reads, stats>>

\* The server accepts the pending watch connection.
ServerAcceptWatch ==
    /\ CanAccept(watch_conn)
    /\ watch_conn' = Accepted(watch_conn)
    /\ UNCHANGED <<io, session, id, conn, watch_ch, ev_set, watch_queue, watch_thread,
                   lock, dials, pc, op, cmd, result, depth, ret, exc, wpc, wresp,
                   pushed, reads, stats>>

(* ------------------------- read, pass by pass ------------------------- *)

\* What one conn.recv(IO_BUFFER_SIZE) can give a read that has accumulated
\* the bytes acc: an error, b'', or 1 to IO_BUFFER_SIZE bytes.  The first bytes
\* of a message start a pickle or are junk; later bytes continue it.
RecvChunks(acc) ==
    { SocketError("timed out"), Bytes(0, <<>>) }
    \cup { Bytes(n, segs) :
             n \in {1, IO_BUFFER_SIZE - 1, IO_BUFFER_SIZE},
             segs \in IF acc.n = 0
                      THEN {<<Pickle(Response("", "OK"))>>, <<Junk("invalid load key, 'x'.")>>}
                      ELSE {<<>>} }

\* read is called: result = bytearray()
ReadCall ==
    /\ io.pc = "idle"
    /\ io' = [NoRead EXCEPT !.pc = "recv"]
    /\ UNCHANGED runVars

\* read: one pass of the loop.
ReadRecv ==
    /\ io.pc = "recv"
    /\ \E chunk \in RecvChunks(io.result) :
        LET s == readStep(chunk, io.result) IN
        io' = [pc |-> IF s.done THEN "done" ELSE "recv",
               before |-> io.result.n,
               result |-> s.result,
               passes |-> io.passes + 1,
               chunk |-> chunk,
               resp |-> s.resp]
    /\ UNCHANGED runVars

\* read has returned.
ReadReturn ==
    /\ io.pc = "done"
    /\ io' = NoRead
    /\ UNCHANGED runVars

(* --------------------------- specifications ---------------------------- *)

\* The steps inside the constructor, fire and check_and_reconnect.
FireRun(t) ==
    \/ ClientInit(t)
    \/ ClientInitCheck(t)
    \/ FireEnter(t)
    \/ FireWrite(t)
    \/ FireRead(t)
    \/ ReconnectEnter(t)
    \/ ReconnectClose(t)
    \/ ReconnectDial(t)
    \/ ReconnectHandshakeWrite(t)
    \/ ReconnectHandshakeRead(t)
    \/ FireExit(t)
    \/ Return(t)

\* The steps of the constructor and of fire and fire_string, with the calls
\* the application makes.
FireStep(t) ==
    \/ FireCall(t)
    \/ FireString(t)
    \/ FireRun(t)

\* The steps of close.
CloseStep(t) ==
    \/ CloseCall(t)
    \/ CloseEnter(t)
    \/ CloseSet(t)
    \/ CloseConn(t)
    \/ CloseWatchConn(t)

\* The steps of get_or_create_client.
GetOrCreateStep(t) ==
    \/ GetOrCreateCall(t)
    \/ GetOrCreateClose(t)

\* The steps of watch_ch.
WatchChStep(t) ==
    \/ WatchChCall(t)
    \/ WatchChEnter(t)
    \/ WatchChCheck(t)
    \/ WatchChDial(t)
    \/ WatchChHandshakeWrite(t)
    \/ WatchChHandshakeRead(t)
    \/ WatchChReturn(t)

\* The steps of the watch thread.
WatchStep == WatchTest \/ WatchRead \/ WatchAppend

\* The steps of the server.
ServerStep ==
    \/ ServerPush
    \/ ServerCloseControl
    \/ ServerCloseWatch
    \/ ServerAcceptControl
    \/ ServerAcceptWatch

\* One foreground thread using the whole client, the watch thread and the
\* server.
Next ==
    \/ FireStep(Foreground)
    \/ CheckAndReconnectCall(Foreground)
    \/ CloseStep(Foreground)
    \/ WatchChStep(Foreground)
    \/ WatchStep
    \/ ServerStep

Spec == Init /\ [][Next]_vars

\* Several threads sharing the client for commands, reconnects and close,
\* with no watch subscription.
NextConcurrent ==
    \/ \E t \in Callers : FireStep(t) \/ CheckAndReconnectCall(t) \/ CloseStep(t)
    \/ ServerCloseControl
    \/ ServerAcceptControl

SpecConcurrent == Init /\ [][NextConcurrent]_vars

\* Several threads sharing the client for commands, reconnects, close and
\* the helper get_or_create_client.
NextHelper ==
    \/ \E t \in Callers :
          \/ FireStep(t)
          \/ CheckAndReconnectCall(t)
          \/ CloseStep(t)
          \/ GetOrCreateStep(t)
    \/ ServerCloseControl
    \/ ServerAcceptControl

SpecHelper == Init /\ [][NextHelper]_vars

\* Calls of dice_io.read on a socket that delivers any sequence of chunks.
NextRead == ReadCall \/ ReadRecv \/ ReadReturn

SpecRead == Init /\ [][NextRead]_vars

\* The life of a subscription: the constructor, watch_ch, the watch thread,
\* close and what the server does on the watch connection, the foreground
\* thread sending no command of its own (a command uses the control
\* connection and the lock, which the watch thread never reads).  The
\* watch thread is a started thread that keeps running, and each of its
\* socket calls returns (data, an error, or the 5 s timeout): weak fairness
\* of its steps.
NextWatch ==
    \/ FireRun(Foreground)
    \/ CloseStep(Foreground)
    \/ WatchChStep(Foreground)
    \/ WatchStep
    \/ ServerPush
    \/ ServerCloseWatch
    \/ ServerAcceptWatch

FairSpec == Init /\ [][NextWatch]_vars /\ WF_vars(WatchStep)

\* The steps by which thread t goes on with, and returns from, an
\* operation it is in (the constructor included).
Proceed(t) ==
    \/ FireRun(t)
    \/ CloseEnter(t) \/ CloseSet(t) \/ CloseConn(t) \/ CloseWatchConn(t)
    \/ WatchChEnter(t) \/ WatchChCheck(t) \/ WatchChDial(t)
    \/ WatchChHandshakeWrite(t) \/ WatchChHandshakeRead(t) \/ WatchChReturn(t)

\* The foreground thread calling fire, watch_ch and close while the watch
\* thread runs and the server closes connections (it pushes no event).
\* Both threads keep running and every socket call returns: weak fairness
\* of the steps of each.
NextOps ==
    \/ FireRun(Foreground)
    \/ FireCall(Foreground)
    \/ CloseStep(Foreground)
    \/ WatchChStep(Foreground)
    \/ WatchStep
    \/ ServerCloseControl
    \/ ServerCloseWatch

FairOps ==
    Init /\ [][NextOps]_vars /\ WF_vars(Proceed(Foreground)) /\ WF_vars(WatchStep)

\* The same, the foreground thread calling check_and_reconnect as well and
\* the server accepting a control connection whose connect had timed out.
NextSession ==
    \/ NextOps
    \/ CheckAndReconnectCall(Foreground)
    \/ ServerAcceptControl

SpecSession == Init /\ [][NextSession]_vars

(* ------------------------------- claims -------------------------------- *)

\* Thread t is at the end of its outermost fire: it returns `result` to
\* the caller, or raises.
FireEnds(t) == op[t] = "fire" /\ pc[t] = "fire_exit" /\ depth[t] = 0

\* Thread t is at the return of its outermost fire, `result` being the
\* value the caller receives.
FireReturns(t) == FireEnds(t) /\ exc[t] = "none"

\* C1: one call of fire on a constructed Session makes at most one
\* reconnect and writes its command at most twice.
C1_OneReconnectOneRetry ==
    \A t \in Callers :
        op[t] = "fire" => stats[t].reconnects <= 1 /\ stats[t].writes <= 2

\* C2: a fire whose read finds the control connection closed by the server
\* (zero bytes) reconnects, and once reconnect and handshake succeeded the
\* caller does not receive that failure.
C2_TransparentReconnect ==
    \A t \in Callers :
        FireReturns(t) /\ stats[t].eof =>
            /\ stats[t].reconnects >= 1
            /\ stats[t].rc_ok => result[t].err # "Empty response or connection closed"

\* Thread t is inside a request/response cycle on the control connection:
\* past the lock of fire or of check_and_reconnect, at the write, waiting
\* for the response, or in the reconnect and retry.
InCycle(t) ==
    \/ pc[t] \in {"fire_write", "fire_read", "rc_close", "rc_connect",
                  "rc_hs_write", "rc_hs_read", "fire_exit"}
    \/ pc[t] = "rc_enter" /\ op[t] # "check_and_reconnect"
    \/ pc[t] = "fire_enter" /\ depth[t] > 0

\* C3: fire calls of different threads are serialized on the control
\* connection: at most one thread is inside a request/response cycle, it
\* holds the lock, and so at most one command is in flight.
C3_FireSerialized ==
    \A t, u \in Callers :
        InCycle(t) /\ InCycle(u) => t = u /\ lock.owner = t

\* C3 witness: one thread waits for its response while the other waits
\* for the lock with its own command.
C3_Witness ==
    /\ pc["t1"] = "fire_read" /\ depth["t1"] = 1
    /\ pc["t2"] = "fire_enter" /\ op["t2"] = "fire"

\* An entry of the watch queue that reports the end of the subscription:
\* the read that found the connection closed or reset by the server, or
\* the "Watch error" entry of the loop's handler.
IsTerminalEntry(r) ==
    /\ IsResponse(r)
    /\ \/ r.err \in {"Empty response or connection closed",
                      "[Errno 104] Connection reset by peer"}
       \/ Contains(r.err, "Watch error")

\* C4: after the server closed the watch connection the queue holds the
\* events followed by exactly one terminal error entry and the loop has
\* stopped: a terminal entry is the last entry, and the loop starts no
\* read after it.
C4_OneTerminalError ==
    \A i \in 1..Len(watch_queue) :
        IsTerminalEntry(watch_queue[i]) =>
            i = Len(watch_queue) /\ wpc \notin {"w_read", "w_append"}

\* C5: the watch queue is the sequence of Responses the watch thread has
\* read, in the order read, the one read and not yet appended excepted.
C5_QueueIsReadOrder ==
    reads = watch_queue \o (IF wpc = "w_append" THEN <<wresp>> ELSE <<>>)

\* C5 witness: the server pushed E1 then E2, and the queue holds E1, E2.
C5_Witness ==
    /\ pushed = 2
    /\ watch_queue = <<PushedEvent(1), PushedEvent(2)>>

\* C6: an open of the subscription while it is open raises nothing and
\* returns the pair (stop signal, queue) of the open subscription.
C6_OpenIdempotent ==
    \A t \in Callers :
        op[t] = "watch_ch" /\ pc[t] = "ret" /\ watch_thread > 0 =>
            /\ exc[t] = "none"
            /\ ret[t] = [kind |-> "tuple", ev |-> watch_ch, queue |-> watch_ch]

\* A close() has returned.
CloseReturned == \E t \in Callers : op[t] = "close" /\ pc[t] = "ret"

\* The state close() leaves: stop signal set if there is one, control and
\* watch socket closed.
ClosedState ==
    /\ watch_ch # 0 => ev_set
    /\ conn.closed
    /\ watch_conn # NoSocket => watch_conn.closed

\* C7: when close() returns the stop signal is set and both connections
\* are closed; once the signal is set the watch loop starts no further
\* iteration; and after close() returned the watch thread terminates.
C7_CloseStopsWatch ==
    /\ [](CloseReturned => ClosedState)
    /\ [][ev_set /\ wpc = "w_test" => wpc' # "w_read"]_vars
    /\ (CloseReturned /\ wpc # "none") ~> (wpc = "exited")

\* C7 witness: close() has returned on a Session whose watch thread had
\* read an event, and the thread has terminated.
C7_Witness ==
    /\ CloseReturned /\ ClosedState
    /\ wpc = "exited"
    /\ Len(watch_queue) > 0 /\ watch_queue[1] = PushedEvent(1)

\* C8: every close() returns with the stop signal set and both sockets
\* closed, and a close() on a Session that an earlier close() has closed
\* raises nothing and changes none of stop signal, control socket, watch
\* socket.
C8_CloseIdempotent ==
    /\ [](CloseReturned => ClosedState)
    /\ [][ClosedState /\ (\E t \in Callers : CloseStep(t))
            => /\ UNCHANGED <<watch_ch, ev_set, conn, watch_conn>>
               /\ \A t \in Callers : op'[t] = "close" => exc'[t] = "none"]_vars

\* C8 witness: a later close() on a closed Session with a watch
\* subscription is at its last statement.
C8_Witness ==
    /\ pc[Foreground] = "close_watch_conn"
    /\ ClosedState /\ watch_ch # 0 /\ watch_conn.closed /\ wpc = "exited"

\* C9: fire and fire_string raise nothing.
C9_FireNeverRaises ==
    \A t \in Callers : op[t] \in {"fire", "fire_string"} => exc[t] = "none"

\* The first command written on a connection (a socket whose connect
\* succeeded), if any, is the handshake with the Session's id and the
\* connection's kind.
HandshakeFirst(sock) ==
    sock.connected /\ sock.first # NoCommand => sock.first = Handshake(id, sock.role)

\* C10: on every connection the first command written is HANDSHAKE with
\* [id, "command"] on a control and [id, "watch"] on a watch connection,
\* id being the Session's.
C10_HandshakeFirst == HandshakeFirst(conn) /\ HandshakeFirst(watch_conn)

\* A read result that reports a dead connection: the zero-byte read of a
\* connection the server closed, the reset, or an error text
\* check_and_reconnect accepts.
DeadConnection(r) ==
    /\ IsResponse(r)
    /\ \/ r.err \in {"Empty response or connection closed",
                      "[Errno 104] Connection reset by peer"}
       \/ IsBrokenConnection(r.err)

\* C11: no step of the watch thread changes the control connection, and an
\* iteration of the watch loop that read a dead-connection failure and
\* goes on to the next iteration has re-dialed the watch connection and
\* handshaken it with [id, "watch"].
C11_WatchReconnectScoped ==
    [][/\ wpc' # wpc => conn' = conn
       /\ (wpc = "w_append" /\ DeadConnection(wresp) /\ wpc' = "w_test") =>
             /\ watch_conn' # watch_conn
             /\ watch_conn'.role = "watch"
             /\ watch_conn'.first = Handshake(id, "watch")]_vars

\* C12: an open whose test of the existing subscription runs after the
\* watch thread has terminated goes on to dial a new watch connection
\* instead of returning the handles it has.
C12_ReopenAfterExit ==
    [][\A t \in Callers :
          (wpc = "exited" /\ pc[t] = "wch_check" /\ pc'[t] # "wch_check")
              => pc'[t] = "wch_connect"]_vars

\* C13: when the watch thread has terminated, the stop signal is set or
\* the last entry of the queue is an error Response.
C13_NoSilentExit ==
    wpc = "exited" =>
        \/ ev_set
        \/ /\ watch_queue # <<>>
           /\ IsResponse(watch_queue[Len(watch_queue)])
           /\ watch_queue[Len(watch_queue)].err # ""

\* C13 witness: the thread has terminated after the stop signal, the last
\* entry of its queue being an event.
C13_Witness ==
    /\ wpc = "exited" /\ ev_set
    /\ watch_queue # <<>> /\ watch_queue[Len(watch_queue)] = PushedEvent(1)

\* Thread t is at a statement that writes to, reads from, closes or
\* replaces the control connection.
ControlAccess(t) ==
    pc[t] \in {"fire_write", "fire_read", "rc_close", "rc_connect", "rc_hs_write",
               "rc_hs_read", "close_conn", "goc_close"}

\* C14: a thread at a statement that touches the control connection holds
\* the Session's lock.
C14_ConnUnderLock ==
    \A t \in Callers : ControlAccess(t) => lock.owner = t

\* Thread t is inside check_and_reconnect, past its test of the error.
InReconnect(t) ==
    pc[t] \in {"rc_enter", "rc_close", "rc_connect", "rc_hs_write", "rc_hs_read"}

\* C15: fire does not reconnect on a Response it received and decoded
\* from the server, whatever its error text.
C15_ReconnectOnlyOnTransportFailure ==
    \A t \in Callers : InReconnect(t) => result[t] \notin ServerReplies

\* C16: a fire whose reconnect attempt failed returns a dead-connection
\* failure, has written its command once and raises nothing; and from the
\* failure that started a reconnect to the end of that reconnect `result`
\* is not changed, nor a command written or an exception raised by the
\* step at which the reconnect fails.
C16_FailedReconnectReturnsOriginal ==
    /\ [](\A t \in Callers :
            FireEnds(t) /\ stats[t].reconnects >= 1 /\ ~stats[t].rc_ok =>
                /\ exc[t] = "none"
                /\ IsResponse(result[t])
                /\ IsBrokenConnection(result[t].err)
                /\ stats[t].writes = 1)
    /\ [][\A t \in Callers :
            InReconnect(t) =>
                /\ result'[t] = result[t]
                /\ pc'[t] = "fire_exit" =>
                      stats'[t].writes = stats[t].writes /\ exc'[t] = exc[t]]_vars

\* C16 witness: fire returns the failure of its first attempt, a reply
\* naming EOF, after a reconnect that dialed a new connection and failed at
\* the handshake.
C16_Witness ==
    /\ FireReturns(Foreground)
    /\ stats[Foreground].reconnects = 1 /\ ~stats[Foreground].rc_ok
    /\ conn.connected /\ dials = 2
    /\ result[Foreground] = Response("ERR unexpected EOF", "")

\* C17: read goes on to another recv only after full chunks, all of them
\* accumulated and within MAX_REQUEST_SIZE; it stops at the first chunk
\* that is empty or shorter than IO_BUFFER_SIZE, or at the chunk with
\* which the length would exceed MAX_REQUEST_SIZE, and exactly then
\* returns "Request too large"; an empty first chunk gives "Empty
\* response or connection closed"; in every other case the decoder gets
\* all the bytes received, at most MAX_REQUEST_SIZE of them.
C17_ReadAccumulates ==
    /\ io.pc = "recv" =>
          /\ io.result.n = io.passes * IO_BUFFER_SIZE
          /\ io.result.n <= MAX_REQUEST_SIZE
    /\ io.pc = "done" /\ io.chunk.kind = "bytes" =>
          LET total == io.before + io.chunk.n
              tooLarge == io.resp = Response("Request too large", "")
          IN /\ io.before = (io.passes - 1) * IO_BUFFER_SIZE
             /\ tooLarge <=> total > MAX_REQUEST_SIZE
             /\ tooLarge \/ io.chunk.n < IO_BUFFER_SIZE
             /\ total = 0 => io.resp = Response("Empty response or connection closed", "")
             /\ total > 0 /\ ~tooLarge =>
                   /\ io.result.n = total /\ total <= MAX_REQUEST_SIZE
                   /\ io.resp = deserialize(io.result)

\* C17 witness: after MAX_REQUEST_SIZE bytes in full chunks one more byte
\* arrives and read returns "Request too large".
C17_Witness ==
    /\ io.pc = "done"
    /\ io.before = MAX_REQUEST_SIZE /\ io.chunk = Bytes(1, <<>>)
    /\ io.resp = Response("Request too large", "")

\* C18: when an open of the watch subscription has raised
\* ConnectionError, the subscription is marked not open, no watch thread
\* exists and no watch connection is left open.
C18_FailedOpenLeavesNothing ==
    \A t \in Callers :
        op[t] = "watch_ch" /\ pc[t] = "ret" /\ exc[t] = "ConnectionError" =>
            /\ watch_ch = 0
            /\ wpc = "none" /\ watch_thread = 0
            /\ ~IsOpen(watch_conn)

\* C19: once a close() has returned, the control connection stays closed
\* and no thread is in a reconnect; a fire that ends then returns an error
\* Response.
C19_NoReconnectAfterClose ==
    session = "closed" =>
        /\ conn.closed
        /\ \A t \in Callers :
              /\ ~InReconnect(t)
              /\ FireEnds(t) => exc[t] = "none" /\ result[t].err # ""

\* Thread t is inside a `with self._lock:` of fire, check_and_reconnect,
\* close or watch_ch.
Locked(t) ==
    \/ InCycle(t)
    \/ pc[t] \in {"close_set", "close_conn", "close_watch_conn", "wch_check",
                  "wch_connect", "wch_hs_write", "wch_hs_read", "wch_return"}

\* The run has used the sockets the model allows, and thread t is where
\* watch_ch or _connect creates one.
OutOfSockets(t) ==
    /\ dials >= MaxSocks
    /\ \/ pc[t] = "wch_check" /\ watch_ch = 0
       \/ pc[t] = "rc_connect"

\* C20: a thread owns the lock exactly while it is inside a `with
\* self._lock:`, so every exit path has released it; the watch thread
\* never takes the lock and is never kept from its read or its append; a
\* thread inside an operation always has a step to take; and every
\* operation the foreground thread starts returns to it (unless the run
\* stops at the model's bound on sockets).
C20_NoDeadlock ==
    /\ [](\A t \in Callers :
            /\ lock.owner = t <=> Locked(t)
            /\ pc[t] # "idle" /\ ~OutOfSockets(t) => ENABLED Proceed(t))
    /\ [](wpc \in {"w_read", "w_append"} => ENABLED WatchStep)
    /\ [][wpc # "none" /\ wpc' # wpc => lock' = lock]_vars
    /\ (pc[Foreground] # "idle")
          ~> (pc[Foreground] = "idle" \/ OutOfSockets(Foreground))

\* C20 witness: the retry of a fire that reconnected is waiting for its
\* response, holding the lock twice, while the watch thread is about to
\* append what it read.
C20_Witness ==
    /\ pc[Foreground] = "fire_read" /\ depth[Foreground] = 1
    /\ lock = [owner |-> Foreground, count |-> 2]
    /\ wpc = "w_append"

====
